---- MODULE Spec2Model ----
(***************************************************************************)
(* Model of the location sharing service of src/app.py: the sessions and   *)
(* location_history tables, the request handlers that read and write them  *)
(* and the background job that deletes expired sessions.                   *)
(*                                                                         *)
(* Every handler runs in one database transaction (one commit at its end,  *)
(* rollback on an exception), so one action is one request.  Time is       *)
(* counted in hours, the unit of MAX_SESSION_LIFETIME_HOURS.               *)
(***************************************************************************)
EXTENDS Integers, FiniteSets, Sequences, TLC

VARIABLES
    sessions,           \* rows of table sessions
    location_history,   \* rows of table location_history
    next_session_id,    \* autoincrement counter of sessions.id
    next_location_id,   \* autoincrement counter of location_history.id
    now,                \* the wall clock, as now_utc() reads it
    last,               \* the last step taken and what it answered
    deleted_tokens,     \* history: tokens of the sessions deleted so far
    transactions,       \* per request worker: the update_location in flight
    sweep               \* the run of the cleanup job in flight

vars == <<sessions, location_history, next_session_id, next_location_id,
          now, last, deleted_tokens, transactions, sweep>>

(* what is in flight; requests that run one at a time leave it alone       *)
in_flight == <<transactions, sweep>>

----------------------------------------------------------------------------
(* Program constants, scaled down.                                         *)

MAX_HISTORY == 2

MAX_SESSION_LIFETIME_HOURS == 1

(* Bounds of the exploration.                                              *)

MaxTime == 2

MaxSessionId == 2

MaxLocationId == 3

(* Samples inserted where the runs of the job are followed to their end   *)
(* or overlap with requests.                                               *)
MaxFewLocationId == 1

(* Sessions created where requests on one session overlap.                 *)
MaxFewSessionId == 1

----------------------------------------------------------------------------
(* Values: a JSON value of a request body or a nullable column is NULL, a  *)
(* number or a string.                                                     *)

NULL == [k |-> "null"]

Num(n) == [k |-> "num", v |-> n]

Str(s) == [k |-> "str", s |-> s]

(* The request workers that can run handlers at the same time.            *)
Workers == {"w1", "w2"}

(* nothing in flight                                                       *)
Idle == [state |-> "idle"]

(* The values secrets.token_hex(16) can return.                            *)
Tokens == {"t1", "t2"}

(* The JSON bodies posted to /api/location/<token>; a field that is absent *)
(* reads as NULL (payload.get).                                            *)
Payloads ==
    { [lat |-> Num(1),   lng |-> Num(2), accuracy |-> Num(3), heading |-> NULL,   speed |-> NULL],
      [lat |-> Str("2"), lng |-> Num(1), accuracy |-> NULL,   heading |-> Num(4), speed |-> Num(5)],
      [lat |-> Num(1),   lng |-> NULL,   accuracy |-> NULL,   heading |-> NULL,   speed |-> NULL],
      [lat |-> NULL,     lng |-> Num(2), accuracy |-> NULL,   heading |-> NULL,   speed |-> NULL],
      [lat |-> Str("x"), lng |-> Num(2), accuracy |-> NULL,   heading |-> NULL,   speed |-> NULL] }

(* float(v) of Python: a number is itself, a string is parsed, anything    *)
(* else raises ValueError, which is the result "error" here.               *)
float(v) ==
    IF v.k = "num" THEN Num(v.v)
    ELSE IF v.k = "str" /\ v.s = "1" THEN Num(1)
    ELSE IF v.k = "str" /\ v.s = "2" THEN Num(2)
    ELSE [k |-> "error"]

----------------------------------------------------------------------------
(* Queries.                                                                *)

(* get_session with the filter on the token lost                           *)
get_session_any(token) == sessions

(* Session.query.filter_by(token=token).first(): the set of matching rows  *)
get_session(token) == {s \in sessions : s.token = token}

(* history without the filter on the session                               *)
history_all(table, session) == table

(* session.history over a table: the rows whose foreign key is the session *)
history(table, session) == {h \in table : h.session_id = session.id}

----------------------------------------------------------------------------
Init ==
    /\ sessions = {}
    /\ location_history = {}
    /\ next_session_id = 1
    /\ next_location_id = 1
    /\ now = 0
    /\ last = [op |-> "init", token |-> "", status |-> 0, body |-> NULL]
    /\ deleted_tokens = {}
    /\ transactions = [w \in Workers |-> Idle]
    /\ sweep = Idle

(* The clock advances.                                                     *)
Tick ==
    /\ now < MaxTime
    /\ now' = now + 1
    /\ last' = [op |-> "tick", token |-> "", status |-> 0, body |-> NULL]
    /\ UNCHANGED <<sessions, location_history, next_session_id,
                   next_location_id, deleted_tokens>>
    /\ UNCHANGED in_flight

----------------------------------------------------------------------------
(* POST /api/session                                                       *)

(* Session(token=token): created_at defaults to now_utc(), every latest_*  *)
(* column is NULL and no location_history row refers to the new id.        *)
Session(id, token, created_at) ==
    [id |-> id, token |-> token, created_at |-> created_at,
     latest_lat |-> NULL, latest_lng |-> NULL, latest_accuracy |-> NULL,
     latest_heading |-> NULL, latest_speed |-> NULL,
     latest_captured_at |-> NULL]

(* token_unique_violation with the unique constraint left out             *)
token_not_unique(token) == FALSE

(* unique=True on sessions.token: the INSERT of a second row with the same *)
(* token fails with IntegrityError.                                        *)
token_unique_violation(token) == get_session(token) # {}

(* The handler inserts and commits once; there is no retry.  When the      *)
(* commit raises, the transaction is rolled back and the request is        *)
(* answered with 500.                                                      *)
create_session ==
    /\ next_session_id <= MaxSessionId
    /\ \E token \in Tokens :
         IF token_unique_violation(token)
         THEN /\ last' = [op |-> "create_session", token |-> token, status |-> 500,
                          body |-> [description |-> "IntegrityError"]]
              /\ UNCHANGED <<sessions, next_session_id>>
         ELSE /\ sessions' = sessions \cup {Session(next_session_id, token, now)}
              /\ next_session_id' = next_session_id + 1
              /\ last' = [op |-> "create_session", token |-> token, status |-> 201,
                          body |-> [token |-> token]]
    /\ UNCHANGED <<location_history, next_location_id, now, deleted_tokens>>
    /\ UNCHANGED in_flight

----------------------------------------------------------------------------
(* POST /api/location/<token>                                              *)

(* LocationHistory(session_id=..., lat=float(lat), ...)                    *)
LocationHistory(id, session, payload, current_time) ==
    [id |-> id, session_id |-> session.id,
     lat |-> float(payload.lat), lng |-> float(payload.lng),
     accuracy |-> payload.accuracy, heading |-> payload.heading,
     speed |-> payload.speed, captured_at |-> current_time]

(* cache_latest with latest_heading taken from the speed                   *)
cache_latest_wrong_field(session, new_location) ==
    [session EXCEPT !.latest_lat = new_location.lat,
                    !.latest_lng = new_location.lng,
                    !.latest_accuracy = new_location.accuracy,
                    !.latest_heading = new_location.speed,
                    !.latest_speed = new_location.speed,
                    !.latest_captured_at = Num(new_location.captured_at)]

(* session.latest_* = new_location.*                                       *)
cache_latest(session, new_location) ==
    [session EXCEPT !.latest_lat = new_location.lat,
                    !.latest_lng = new_location.lng,
                    !.latest_accuracy = new_location.accuracy,
                    !.latest_heading = new_location.heading,
                    !.latest_speed = new_location.speed,
                    !.latest_captured_at = Num(new_location.captured_at)]

(* over_limit one too late                                                 *)
over_limit_late(current_count) == current_count > MAX_HISTORY + 1

(* current_count > MAX_HISTORY                                             *)
over_limit(current_count) == current_count > MAX_HISTORY

(* session.history.order_by(captured_at.asc()).first(): a row with the     *)
(* least captured_at.  SQL leaves the order of rows with equal keys open,  *)
(* so every such row is a possible answer.                                 *)
oldest_history(table, session) ==
    {h \in history(table, session) :
        \A g \in history(table, session) : h.captured_at <= g.captured_at}

(* Step 3 of the handler.  session.history.count() flushes the pending     *)
(* INSERT first, so table already holds the new row.  The result is the    *)
(* set of tables the commit can leave.                                     *)
evict(table, session) ==
    IF over_limit(Cardinality(history(table, session)))
    THEN {table \ {oldest} : oldest \in oldest_history(table, session)}
    ELSE {table}

(* coordinate_missing with "and" for "or"                                  *)
coordinate_missing_both(lat, lng) == lat = NULL /\ lng = NULL

(* lat is None or lng is None                                              *)
coordinate_missing(lat, lng) == lat = NULL \/ lng = NULL

(* The handler.  Its answers carry the posted body along, so that a step   *)
(* shows what was asked.                                                   *)
update_location ==
    /\ next_location_id <= MaxLocationId
    /\ \E token \in Tokens, payload \in Payloads :
         IF get_session(token) = {}
         THEN /\ last' = [op |-> "update_location", token |-> token, status |-> 404,
                          body |-> [description |-> "Unknown share token"]]
              /\ UNCHANGED <<sessions, location_history, next_location_id>>
         ELSE IF coordinate_missing(payload.lat, payload.lng)
         THEN /\ last' = [op |-> "update_location", token |-> token, status |-> 400,
                          body |-> [description |-> "lat/lng is required",
                                    payload |-> payload]]
              /\ UNCHANGED <<sessions, location_history, next_location_id>>
         ELSE IF float(payload.lat).k = "error" \/ float(payload.lng).k = "error"
         THEN /\ last' = [op |-> "update_location", token |-> token, status |-> 500,
                          body |-> [description |-> "ValueError", payload |-> payload]]
              /\ UNCHANGED <<sessions, location_history, next_location_id>>
         ELSE \E session \in get_session(token) :
              LET new_location == LocationHistory(next_location_id, session, payload, now)
              IN  /\ sessions' = (sessions \ {session}) \cup {cache_latest(session, new_location)}
                  /\ location_history' \in evict(location_history \cup {new_location}, session)
                  /\ next_location_id' = next_location_id + 1
                  /\ last' = [op |-> "update_location", token |-> token, status |-> 200,
                              body |-> [status |-> "ok", payload |-> payload]]
    /\ UNCHANGED <<next_session_id, now, deleted_tokens>>
    /\ UNCHANGED in_flight

----------------------------------------------------------------------------
(* GET /api/location/<token>                                               *)

(* latest with the test on latest_accuracy for latest_lat                  *)
latest_by_accuracy(session) ==
    IF session.latest_accuracy = NULL
    THEN [available |-> FALSE]
    ELSE [available |-> TRUE,
          location |-> [lat |-> session.latest_lat, lng |-> session.latest_lng,
                        accuracy |-> session.latest_accuracy,
                        heading |-> session.latest_heading,
                        speed |-> session.latest_speed,
                        captured_at |-> session.latest_captured_at]]

(* the answer of the handler for a session that was found                  *)
latest(session) ==
    IF session.latest_lat = NULL
    THEN [available |-> FALSE]
    ELSE [available |-> TRUE,
          location |-> [lat |-> session.latest_lat, lng |-> session.latest_lng,
                        accuracy |-> session.latest_accuracy,
                        heading |-> session.latest_heading,
                        speed |-> session.latest_speed,
                        captured_at |-> session.latest_captured_at]]

latest_location ==
    /\ \E token \in Tokens :
         IF get_session(token) = {}
         THEN last' = [op |-> "latest_location", token |-> token, status |-> 404,
                       body |-> [description |-> "Unknown share token"]]
         ELSE \E session \in get_session(token) :
              last' = [op |-> "latest_location", token |-> token, status |-> 200,
                       body |-> latest(session)]
    /\ UNCHANGED <<sessions, location_history, next_session_id, next_location_id,
                   now, deleted_tokens>>
    /\ UNCHANGED in_flight

----------------------------------------------------------------------------
(* GET /track/<token>: the page that shows one session                     *)

session_info(session) ==
    [token |-> session.token,
     created_at |-> session.created_at + 9,
     has_location |-> session.latest_lat # NULL,
     count |-> Cardinality(history(location_history, session)),
     max_history |-> MAX_HISTORY]

track_page ==
    /\ \E token \in Tokens :
         IF get_session(token) = {}
         THEN last' = [op |-> "track_page", token |-> token, status |-> 404,
                       body |-> [description |-> "Unknown share token"]]
         ELSE \E session \in get_session(token) :
              last' = [op |-> "track_page", token |-> token, status |-> 200,
                       body |-> session_info(session)]
    /\ UNCHANGED <<sessions, location_history, next_session_id, next_location_id,
                   now, deleted_tokens>>
    /\ UNCHANGED in_flight

----------------------------------------------------------------------------
(* GET /api/session/<token>/history                                        *)

Min(a, b) == IF a < b THEN a ELSE b

(* order_by(captured_at.desc()): every listing of the rows in which        *)
(* captured_at never increases.                                            *)
order_by_captured_at_desc(rows) ==
    {q \in [1..Cardinality(rows) -> rows] :
        /\ \A i, j \in 1..Cardinality(rows) : i # j => q[i] # q[j]
        /\ \A i, j \in 1..Cardinality(rows) : i < j => q[i].captured_at >= q[j].captured_at}

(* .limit(MAX_HISTORY)                                                     *)
limit(q, n) == SubSeq(q, 1, Min(Len(q), n))

(* one entry of the answer; captured_at is shown in KST (UTC+9)            *)
history_item(h) ==
    [lat |-> h.lat, lng |-> h.lng, accuracy |-> h.accuracy,
     heading |-> h.heading, speed |-> h.speed, captured_at |-> h.captured_at + 9]

session_history(session, q) ==
    LET rows == limit(q, MAX_HISTORY)
    IN  [token |-> session.token,
         created_at |-> session.created_at,
         has_location |-> session.latest_lat # NULL,
         count |-> Len(rows),
         history |-> [i \in 1..Len(rows) |-> history_item(rows[i])]]

get_session_history ==
    /\ \E token \in Tokens :
         IF get_session(token) = {}
         THEN last' = [op |-> "get_session_history", token |-> token, status |-> 404,
                       body |-> [description |-> "Unknown share token"]]
         ELSE \E session \in get_session(token) :
              \E q \in order_by_captured_at_desc(history(location_history, session)) :
              last' = [op |-> "get_session_history", token |-> token, status |-> 200,
                       body |-> session_history(session, q)]
    /\ UNCHANGED <<sessions, location_history, next_session_id, next_location_id,
                   now, deleted_tokens>>
    /\ UNCHANGED in_flight

----------------------------------------------------------------------------
(* The background job, every 30 minutes                                    *)

(* sessions_to_delete with <= for <                                        *)
sessions_to_delete_inclusive(table, expiration_time) ==
    {s \in table : s.created_at <= expiration_time}

(* sessions_to_delete with .first() for .all(): one expired session a run *)
sessions_to_delete_first(table, expiration_time) ==
    {s \in table :
        /\ s.created_at < expiration_time
        /\ \A g \in table : g.created_at < expiration_time => s.id <= g.id}

(* sessions_to_delete with the age counted from the last sample            *)
sessions_to_delete_by_last_append(table, expiration_time) ==
    {s \in table :
        IF s.latest_captured_at = NULL
        THEN s.created_at < expiration_time
        ELSE s.latest_captured_at.v < expiration_time}

(* Session.query.filter(Session.created_at < expiration_time).all()        *)
sessions_to_delete(table, expiration_time) ==
    {s \in table : s.created_at < expiration_time}

(* cascade_delete without the cascade                                      *)
cascade_delete_none(table, deleted) == table

(* db.session.delete(s) with cascade="all, delete-orphan" on               *)
(* Session.history: the rows of the deleted sessions go with them.         *)
cascade_delete(table, deleted) ==
    {h \in table : \A s \in deleted : h.session_id # s.id}

cleanup_expired_sessions ==
    LET expiration_time == now - MAX_SESSION_LIFETIME_HOURS
        deleted == sessions_to_delete(sessions, expiration_time)
    IN  /\ sessions' = sessions \ deleted
        /\ location_history' = cascade_delete(location_history, deleted)
        /\ deleted_tokens' = deleted_tokens \cup {s.token : s \in deleted}
        /\ last' = [op |-> "cleanup_expired_sessions", token |-> "", status |-> 0,
                    body |-> [count |-> Cardinality(deleted)]]
        /\ UNCHANGED <<next_session_id, next_location_id, now>>
        /\ UNCHANGED in_flight

----------------------------------------------------------------------------
Next ==
    \/ Tick
    \/ create_session
    \/ update_location
    \/ latest_location
    \/ track_page
    \/ get_session_history
    \/ cleanup_expired_sessions

Spec == Init /\ [][Next]_vars

----------------------------------------------------------------------------
(* Requests that overlap.                                                  *)
(*                                                                         *)
(* The handlers take no lock and set no isolation level, so what overlaps  *)
(* is decided by the database of FALLBACK_DATABASE_URL: MySQL (InnoDB) at  *)
(* REPEATABLE READ, with row counts checked by the ORM.  A transaction     *)
(* reads the tables as they were committed at its first SELECT, plus its   *)
(* own writes; its writes show to others at its commit, all at once.  The  *)
(* UPDATE of the sessions row waits for a writer that holds the row, so    *)
(* the writes of a request are taken as one step with its commit.          *)

(* update_location up to current_time = now_utc(): the session is looked   *)
(* up and the body is checked as in update_location; a request that gets   *)
(* that far stays in flight with what it has read.                         *)
update_location_begin(w) ==
    /\ transactions[w] = Idle
    /\ next_location_id + Cardinality({v \in Workers : transactions[v] # Idle})
          <= MaxLocationId
    /\ \E token \in Tokens, payload \in Payloads :
         IF get_session(token) = {}
         THEN /\ last' = [op |-> "update_location", token |-> token, status |-> 404,
                          body |-> [description |-> "Unknown share token"]]
              /\ UNCHANGED transactions
         ELSE IF coordinate_missing(payload.lat, payload.lng)
         THEN /\ last' = [op |-> "update_location", token |-> token, status |-> 400,
                          body |-> [description |-> "lat/lng is required",
                                    payload |-> payload]]
              /\ UNCHANGED transactions
         ELSE IF float(payload.lat).k = "error" \/ float(payload.lng).k = "error"
         THEN /\ last' = [op |-> "update_location", token |-> token, status |-> 500,
                          body |-> [description |-> "ValueError", payload |-> payload]]
              /\ UNCHANGED transactions
         ELSE \E session \in get_session(token) :
              /\ transactions' =
                    [transactions EXCEPT ![w] =
                        [state |-> "found", token |-> token, payload |-> payload,
                         session |-> session, current_time |-> now,
                         snapshot |-> history(location_history, session)]]
              /\ last' = [op |-> "update_location_begin", token |-> token, status |-> 0,
                          body |-> [payload |-> payload]]
    /\ UNCHANGED <<sessions, location_history, next_session_id, next_location_id,
                   now, deleted_tokens, sweep>>

(* stale_row with the row count of the UPDATE not checked                  *)
stale_row_unchecked(session) == FALSE

(* The UPDATE of the latest_* columns matches no row when the session was  *)
(* deleted after it was read: the flush raises StaleDataError.             *)
stale_row(session) == \A s \in sessions : s.id # session.id

(* Step 3 of the handler on what the transaction sees: the rows it is to   *)
(* delete at its commit, none or one of the oldest.                        *)
to_delete(view, session) ==
    IF over_limit(Cardinality(history(view, session)))
    THEN {{oldest} : oldest \in oldest_history(view, session)}
    ELSE {{}}

(* update_location from db.session.add to db.session.commit.  A DELETE of  *)
(* a row that another request has deleted meanwhile matches nothing and is *)
(* no error.                                                               *)
update_location_commit(w) ==
    /\ transactions[w] # Idle
    /\ LET tx == transactions[w]
           new_location == LocationHistory(next_location_id, tx.session,
                                           tx.payload, tx.current_time)
       IN  IF stale_row(tx.session)
           THEN /\ last' = [op |-> "update_location", token |-> tx.token, status |-> 500,
                            body |-> [description |-> "StaleDataError",
                                      payload |-> tx.payload]]
                /\ UNCHANGED <<sessions, location_history, next_location_id>>
           ELSE \E current \in {s \in sessions : s.id = tx.session.id} :
                \E deleted \in to_delete(tx.snapshot \cup {new_location}, tx.session) :
                /\ sessions' = (sessions \ {current})
                                  \cup {cache_latest(current, new_location)}
                /\ location_history' = (location_history \cup {new_location}) \ deleted
                /\ next_location_id' = next_location_id + 1
                /\ last' = [op |-> "update_location", token |-> tx.token, status |-> 200,
                            body |-> [status |-> "ok", payload |-> tx.payload]]
    /\ transactions' = [transactions EXCEPT ![w] = Idle]
    /\ UNCHANGED <<next_session_id, now, deleted_tokens, sweep>>

(* cleanup_expired_sessions up to db.session.delete(s): the expired        *)
(* sessions and, for the cascade, their location_history rows are loaded.  *)
cleanup_begin ==
    /\ sweep = Idle
    /\ LET expiration_time == now - MAX_SESSION_LIFETIME_HOURS
           deleted == sessions_to_delete(sessions, expiration_time)
       IN  /\ sweep' = [state |-> "loaded", sessions_to_delete |-> deleted,
                        children |-> location_history
                                        \ cascade_delete(location_history, deleted)]
           /\ last' = [op |-> "cleanup_begin", token |-> "", status |-> 0,
                       body |-> [count |-> Cardinality(deleted)]]
    /\ UNCHANGED <<sessions, location_history, next_session_id, next_location_id,
                   now, deleted_tokens, transactions>>

(* foreign_key_violation with no foreign key on session_id                 *)
foreign_key_unchecked(table, deleted, children) == FALSE

(* db.ForeignKey('sessions.id'): a session cannot be deleted while a row   *)
(* of location_history that is not deleted with it refers to it.           *)
foreign_key_violation(table, deleted, children) ==
    \E h \in table \ children : \E s \in deleted : h.session_id = s.id

(* cleanup_expired_sessions at db.session.commit(): the loaded rows and    *)
(* sessions are deleted by their ids.  When the foreign key refuses, the   *)
(* job ends with IntegrityError and nothing is deleted in this run.        *)
cleanup_commit ==
    /\ sweep # Idle
    /\ IF foreign_key_violation(location_history, sweep.sessions_to_delete, sweep.children)
       THEN /\ last' = [op |-> "cleanup_expired_sessions", token |-> "", status |-> 500,
                        body |-> [description |-> "IntegrityError", count |-> 0]]
            /\ UNCHANGED <<sessions, location_history, deleted_tokens>>
       ELSE /\ sessions' = {s \in sessions :
                               \A d \in sweep.sessions_to_delete : d.id # s.id}
            /\ location_history' = location_history \ sweep.children
            /\ deleted_tokens' = deleted_tokens
                                    \cup {s.token : s \in sweep.sessions_to_delete}
            /\ last' = [op |-> "cleanup_expired_sessions", token |-> "", status |-> 0,
                        body |-> [count |-> Cardinality(sweep.sessions_to_delete)]]
    /\ sweep' = Idle
    /\ UNCHANGED <<next_session_id, next_location_id, now, transactions>>

(* Requests and runs of the job that overlap on the sessions created       *)
(* first.                                                                  *)
NextConcurrent ==
    \/ Tick
    \/ next_session_id <= MaxFewSessionId /\ create_session
    \/ latest_location
    \/ track_page
    \/ get_session_history
    \/ \E w \in Workers : update_location_begin(w)
    \/ \E w \in Workers : update_location_commit(w)
    \/ cleanup_begin
    \/ cleanup_commit

ConcurrentSpec == Init /\ [][NextConcurrent]_vars

(* Requests and runs of the job that overlap on any session, with few      *)
(* samples.                                                                *)
NextExpiryRace ==
    \/ Tick
    \/ create_session
    \/ latest_location
    \/ track_page
    \/ get_session_history
    \/ \E w \in Workers :
          /\ next_location_id + Cardinality({v \in Workers : transactions[v] # Idle})
                <= MaxFewLocationId
          /\ update_location_begin(w)
    \/ \E w \in Workers : update_location_commit(w)
    \/ cleanup_begin
    \/ cleanup_commit

ExpiryRaceSpec == Init /\ [][NextExpiryRace]_vars

(* The scheduler runs the job every 30 minutes for as long as the process *)
(* lives, and the clock keeps advancing (up to the bound of the            *)
(* exploration).                                                           *)
NextLive ==
    \/ Tick
    \/ create_session
    \/ next_location_id <= MaxFewLocationId /\ update_location
    \/ latest_location
    \/ track_page
    \/ get_session_history
    \/ cleanup_expired_sessions

LiveSpec ==
    /\ Init
    /\ [][NextLive]_vars
    /\ WF_vars(Tick)
    /\ WF_vars(cleanup_expired_sessions)

----------------------------------------------------------------------------
(* Properties                                                              *)

(* C1: after every update_location, and in every other reachable state,    *)
(* a session has at most MAX_HISTORY rows of location_history.             *)
C1_HistoryBounded ==
    \A s \in sessions : Cardinality(history(location_history, s)) <= MAX_HISTORY

(* an update_location has just evicted: the session is full and one more   *)
(* row than the table holds was inserted, none of them cascaded away       *)
C1_Witness ==
    /\ last.op = "update_location"
    /\ last.status = 200
    /\ deleted_tokens = {}
    /\ Cardinality(location_history) < next_location_id - 1
    /\ \E s \in get_session(last.token) :
          Cardinality(history(location_history, s)) = MAX_HISTORY

(* C2: an update_location that answers 200 keeps the row it inserted, and  *)
(* a row it removes is the one of its session that was inserted first      *)
(* (least id), whatever the captured_at values are.                        *)
C2_EvictsFirstInserted ==
    [][(last'.op = "update_location" /\ last'.status = 200) =>
        /\ \E h \in location_history' : h.id = next_location_id
        /\ \A h \in location_history \ location_history' :
             \A g \in location_history :
                g.session_id = h.session_id => h.id <= g.id]_vars

(* C3: a session starts with no latest; an update_location answering 200   *)
(* makes the answer of latest_location the posted lat, lng (as floats),    *)
(* accuracy, heading and speed, stamped with the time of the insert; no    *)
(* other step changes the latest of a session that stays.                  *)
C3_LatestIsLastAppend ==
    [][/\ \A s \in sessions' :
            (\A r \in sessions : r.id # s.id) => latest(s) = [available |-> FALSE]
       /\ (last'.op = "update_location" /\ last'.status = 200) =>
            /\ \E s \in sessions' : s.token = last'.token
            /\ \A s \in sessions' :
                 s.token = last'.token =>
                    latest(s) =
                      [available |-> TRUE,
                       location |-> [lat |-> float(last'.body.payload.lat),
                                     lng |-> float(last'.body.payload.lng),
                                     accuracy |-> last'.body.payload.accuracy,
                                     heading |-> last'.body.payload.heading,
                                     speed |-> last'.body.payload.speed,
                                     captured_at |-> Num(now)]]
       /\ \A r \in sessions, s \in sessions' :
            (r.id = s.id /\ ~(last'.op = "update_location" /\ last'.status = 200
                              /\ last'.token = s.token))
               => latest(s) = latest(r)
       /\ (last'.op = "latest_location" /\ last'.status = 200) =>
            \E s \in sessions : s.token = last'.token /\ last'.body = latest(s)]_vars

(* latest_location has answered with a sample whose lat was posted as the  *)
(* string "2" and whose heading and speed differ                           *)
C3_Witness ==
    /\ last.op = "latest_location"
    /\ last.status = 200
    /\ last.body.available
    /\ last.body.location.lat = Num(2)
    /\ last.body.location.heading = Num(4)
    /\ last.body.location.speed = Num(5)

(* C4: track_page, latest_location, update_location and                    *)
(* get_session_history on a token that no session has (never created, or   *)
(* deleted by the cleanup) answer 404 and leave both tables as they were.  *)
C4_UnknownTokenNotFound ==
    [][(/\ last'.op \in {"track_page", "latest_location", "update_location",
                         "get_session_history"}
        /\ \A s \in sessions : s.token # last'.token)
         => /\ last'.status = 404
            /\ sessions' = sessions
            /\ location_history' = location_history]_vars

(* update_location was answered 404 on the token of a deleted session,     *)
(* while another session is there                                          *)
C4_Witness ==
    /\ last.op = "update_location"
    /\ last.status = 404
    /\ last.token \in deleted_tokens
    /\ sessions # {}

(* C5: one run of cleanup_expired_sessions at time now leaves exactly the  *)
(* sessions with created_at >= now - MAX_SESSION_LIFETIME_HOURS, each as   *)
(* it was, with exactly the location_history rows they had, and counts the *)
(* sessions it deleted.                                                    *)
C5_SweepDeletesExactlyExpired ==
    [][last'.op = "cleanup_expired_sessions" =>
        /\ sessions' = {s \in sessions : s.created_at >= now - MAX_SESSION_LIFETIME_HOURS}
        /\ location_history' =
              {h \in location_history : \E s \in sessions' : s.id = h.session_id}
        /\ last'.body.count = Cardinality(sessions) - Cardinality(sessions')]_vars

(* a run has deleted a session and kept another that has a sample, one of  *)
(* them created exactly MAX_SESSION_LIFETIME_HOURS before the run          *)
C5_Witness ==
    /\ last.op = "cleanup_expired_sessions"
    /\ last.body.count = 1
    /\ \E s \in sessions :
          /\ s.created_at = now - MAX_SESSION_LIFETIME_HOURS
          /\ history(location_history, s) # {}

(* C6: a run of cleanup_expired_sessions that follows a run directly       *)
(* deletes nothing: it counts 0 and leaves both tables as they were.       *)
C6_SweepIdempotent ==
    [][(last.op = "cleanup_expired_sessions" /\ last'.op = "cleanup_expired_sessions")
         => /\ last'.body.count = 0
            /\ sessions' = sessions
            /\ location_history' = location_history]_vars

(* a run that deleted nothing, after a run that deleted a session, with a  *)
(* session left that the runs kept                                         *)
C6_Witness ==
    /\ last.op = "cleanup_expired_sessions"
    /\ last.body.count = 0
    /\ deleted_tokens # {}
    /\ sessions # {}
    /\ next_session_id > MaxSessionId

(* C7: every row of location_history refers to exactly one row of          *)
(* sessions.                                                               *)
C7_NoOrphanSamples ==
    \A h \in location_history :
        Cardinality({s \in sessions : s.id = h.session_id}) = 1

(* a cleanup has deleted a session and with it every sample there was      *)
(* (an eviction alone never empties the table)                             *)
C7_Witness ==
    /\ last.op = "cleanup_expired_sessions"
    /\ last.body.count > 0
    /\ next_location_id > 1
    /\ location_history = {}

(* C8: no two sessions have the same token; a create_session answering 201 *)
(* returns a token that no session had and adds a session with it; a       *)
(* create_session whose token a session has leaves both tables as they     *)
(* were.                                                                   *)
C8_TokensUnique ==
    [][/\ \A s1, s2 \in sessions' : s1.token = s2.token => s1 = s2
       /\ (last'.op = "create_session" /\ last'.status = 201) =>
            /\ \A s \in sessions : s.token # last'.body.token
            /\ \E s \in sessions' : s.token = last'.body.token
       /\ (last'.op = "create_session" /\ \E s \in sessions : s.token = last'.token) =>
            /\ sessions' = sessions
            /\ location_history' = location_history]_vars

(* create_session has generated the token of a session that has a latest   *)
(* location and a sample                                                   *)
C8_Witness ==
    /\ last.op = "create_session"
    /\ last.status = 500
    /\ \E s \in sessions :
          /\ s.token = last.token
          /\ s.latest_lat # NULL
          /\ history(location_history, s) # {}

(* C9: every create_session answers 201 with the token of a session it     *)
(* has inserted, whose latest is empty and which has no sample.            *)
C9_CreateNeverFails ==
    [][last'.op = "create_session" =>
        /\ last'.status = 201
        /\ \E s \in sessions' \ sessions :
             /\ s.token = last'.body.token
             /\ latest(s) = [available |-> FALSE]
             /\ \A h \in location_history' : h.session_id # s.id]_vars

(* C10: no session has the token of a session that was deleted.            *)
C10_NoReactivation ==
    \A s \in sessions : s.token \notin deleted_tokens

(* C11: update_location on the token of a session, with a body in which    *)
(* lat or lng is missing, answers 400 and leaves both tables as they were. *)
C11_MissingCoordinateRejected ==
    [][(last'.op = "update_location" /\ \E s \in sessions : s.token = last'.token) =>
        /\ last'.status # 404
        /\ (last'.body.payload.lat = NULL \/ last'.body.payload.lng = NULL) =>
             /\ last'.status = 400
             /\ sessions' = sessions
             /\ location_history' = location_history]_vars

(* a body with lat and without lng was answered 400 on a session that has  *)
(* a latest location and a sample                                          *)
C11_Witness ==
    /\ last.op = "update_location"
    /\ last.status = 400
    /\ last.body.payload.lat # NULL
    /\ last.body.payload.lng = NULL
    /\ \E s \in sessions :
          /\ s.token = last.token
          /\ s.latest_lat # NULL
          /\ \E h \in location_history : h.session_id = s.id

(* C12: update_location on the token of a session, with lat and lng there  *)
(* but one of them not a number, answers 400 as for a missing coordinate   *)
(* and leaves both tables as they were.                                    *)
C12_NotCoercibleRejected ==
    [][(/\ last'.op = "update_location"
        /\ \E s \in sessions : s.token = last'.token
        /\ last'.body.payload.lat # NULL
        /\ last'.body.payload.lng # NULL
        /\ \/ float(last'.body.payload.lat).k = "error"
           \/ float(last'.body.payload.lng).k = "error")
         => /\ last'.status = 400
            /\ sessions' = sessions
            /\ location_history' = location_history]_vars

(* C13: get_session_history on the token of a session answers with the     *)
(* samples of the session, at most MAX_HISTORY, the one inserted last      *)
(* first; when every sample ever inserted went to this session, they are   *)
(* the MAX_HISTORY samples inserted last (the 2nd and the 3rd of three     *)
(* when MAX_HISTORY is 2).                                                 *)
C13_HistoryNewestFirst ==
    [][(last'.op = "get_session_history" /\ last'.status = 200) =>
        \E s \in sessions :
          /\ s.token = last'.token
          /\ LET rows == {h \in location_history : h.session_id = s.id}
                 n == IF Cardinality(rows) < MAX_HISTORY
                      THEN Cardinality(rows) ELSE MAX_HISTORY
                 answer == last'.body.history
             IN  /\ Len(answer) = n
                 /\ \E q \in [1..n -> rows] :
                      /\ \A i, j \in 1..n : i < j => q[i].id > q[j].id
                      /\ \A h \in rows : \A i \in 1..n : h.id <= q[i].id \/ \E j \in 1..n : q[j] = h
                      /\ \A i \in 1..n : answer[i] = history_item(q[i])
                 /\ (next_session_id = 2 /\ deleted_tokens = {}) =>
                      {h.id : h \in rows} =
                         {i \in 1..(next_location_id - 1) : i >= next_location_id - MAX_HISTORY}]_vars

(* C14: latest_location on the token of a session answers                  *)
(* available = false exactly when no sample was ever inserted for the      *)
(* session: a session starts without a latest location, an update_location *)
(* answering 200 gives it one, a session that has one keeps it, and a      *)
(* session has one exactly when it has a sample (MAX_HISTORY >= 1, so an   *)
(* eviction never removes the only sample).                                *)
C14_UnavailableUntilFirstAppend ==
    [][/\ (last'.op = "latest_location" /\ last'.status = 200) =>
            \E s \in sessions :
               /\ s.token = last'.token
               /\ last'.body.available <=> \E h \in location_history : h.session_id = s.id
       /\ \A s \in sessions' :
            (s.latest_lat # NULL) <=> \E h \in location_history' : h.session_id = s.id
       /\ \A s \in sessions' :
            (\A r \in sessions : r.id # s.id) => s.latest_lat = NULL
       /\ (last'.op = "update_location" /\ last'.status = 200) =>
            \E s \in sessions' : s.token = last'.token /\ s.latest_lat # NULL
       /\ \A r \in sessions, s \in sessions' :
            (r.id = s.id /\ r.latest_lat # NULL) => s.latest_lat # NULL]_vars

(* latest_location has answered available = false on a session, after      *)
(* samples were inserted for another session                               *)
C14_Witness ==
    /\ last.op = "latest_location"
    /\ last.status = 200
    /\ ~last.body.available
    /\ location_history # {}

(* C18: track_page, latest_location, update_location and                   *)
(* get_session_history on the token of a session whose created_at is older *)
(* than now - MAX_SESSION_LIFETIME_HOURS answer 404 and leave both tables  *)
(* as they were.                                                           *)
C18_ExpiredIsNotFound ==
    [][(/\ last'.op \in {"track_page", "latest_location", "update_location",
                         "get_session_history"}
        /\ \E s \in sessions :
              /\ s.token = last'.token
              /\ s.created_at < now - MAX_SESSION_LIFETIME_HOURS)
         => /\ last'.status = 404
            /\ sessions' = sessions
            /\ location_history' = location_history]_vars

C15_ReadersSeeWholeAppends ==
    \A s \in sessions :
        /\ Cardinality({h \in location_history : h.session_id = s.id}) <= MAX_HISTORY
        /\ s.latest_lat # NULL =>
             \E h \in location_history :
                /\ h.session_id = s.id
                /\ h.lat = s.latest_lat
                /\ h.lng = s.latest_lng
                /\ h.accuracy = s.latest_accuracy
                /\ h.heading = s.latest_heading
                /\ h.speed = s.latest_speed
                /\ Num(h.captured_at) = s.latest_captured_at

(* C16: update_location requests on one token that overlap leave what they *)
(* leave when run one after the other in some order; run one after the     *)
(* other they leave at most MAX_HISTORY samples (C1), so once none is in   *)
(* flight a session has at most MAX_HISTORY samples.                       *)
C16_AppendsSerialized ==
    (\A w \in Workers : transactions[w] = Idle) =>
        \A s \in sessions :
            Cardinality({h \in location_history : h.session_id = s.id}) <= MAX_HISTORY

(* C17: with a run of the job overlapping update_location requests, no     *)
(* sample is ever without its session and no deleted session comes back;   *)
(* a run deletes only sessions it selected and leaves the others as they   *)
(* were with their samples; an update_location that was in flight when its *)
(* session was deleted changes nothing and is not answered 200; requests   *)
(* that start on a token no session has are answered 404 and change        *)
(* nothing.                                                                *)
C17_ExpiryRaceKeepsStore ==
    [][/\ \A h \in location_history' : \E s \in sessions' : s.id = h.session_id
       /\ \A i \in 1..(next_session_id - 1) :
            (\A s \in sessions : s.id # i) => (\A s \in sessions' : s.id # i)
       /\ last'.op = "cleanup_expired_sessions" =>
            /\ \A s \in sessions \ sessions' :
                  \E d \in sweep.sessions_to_delete : d.id = s.id
            /\ \A s \in sessions' :
                  /\ s \in sessions
                  /\ {h \in location_history' : h.session_id = s.id}
                       = {h \in location_history : h.session_id = s.id}
       /\ \A w \in Workers :
            (/\ transactions[w] # Idle
             /\ transactions'[w] = Idle
             /\ \A s \in sessions : s.id # transactions[w].session.id)
              => /\ last'.status # 200
                 /\ sessions' = sessions
                 /\ location_history' = location_history
       /\ (/\ last'.op \in {"track_page", "latest_location", "update_location",
                            "get_session_history"}
           /\ transactions' = transactions
           /\ \A s \in sessions : s.token # last'.token)
            => /\ last'.status = 404
               /\ sessions' = sessions
               /\ location_history' = location_history]_vars

(* an update_location has ended with StaleDataError: its session was       *)
(* deleted by the job while it was in flight, and another session is there *)
C17_Witness ==
    /\ last.op = "update_location"
    /\ last.status = 500
    /\ last.body.description = "StaleDataError"
    /\ last.token \in deleted_tokens
    /\ sessions # {}

====
